---- MODULE Spec2Model ----
(***************************************************************************)
(* Model of the COPD lung-sound inference API (backend/app).               *)
(*                                                                         *)
(* Strings that the code inspects character by character (content types,   *)
(* settings.model_type, prediction identifiers) are sequences of           *)
(* one-character strings; all other strings are opaque TLA+ strings.       *)
(* An optional value is a set: {} is Python's None, {x} is the value x.    *)
(* A probability is a fraction [num |-> n, den |-> d].                     *)
(***************************************************************************)
EXTENDS Integers, Sequences, FiniteSets, TLC

\* ------------------------------------------------------------------ bounds
MaxUploads == 2
MaxClock == 1
MaxLogit == 2
MaxClasses == 5
MaxCalls == 3

\* ------------------------------------------------------------- basic values
None == {}
Some(x) == {x}
TheValue(opt) == CHOOSE x \in opt : TRUE

Raise(type, text) == [raised |-> TRUE, type |-> type, text |-> text]
Return(v) == [raised |-> FALSE, value |-> v]

\* str.lower() on the characters the model uses
LowerChar(c) ==
    CASE c = "A" -> "a"
      [] c = "B" -> "b"
      [] c = "C" -> "c"
      [] c = "F" -> "f"
      [] c = "P" -> "p"
      [] c = "O" -> "o"
      [] OTHER -> c
Lower(s) == [k \in 1..Len(s) |-> LowerChar(s[k])]

\* str.startswith(prefix)
StartsWith(s, prefix) ==
    /\ Len(s) >= Len(prefix)
    /\ SubSeq(s, 1, Len(prefix)) = prefix

\* ------------------------------------------------------------------- Label
\* class Label(str, Enum): definition order is the order of list(Label)
Label == << "crackle", "wheeze", "both", "none" >>

\* class PredictionStatus(str, Enum)
PredictionStatus == { "pending", "processing", "completed", "failed" }

\* ---------------------------------------------------------------- Settings
\* The fields class Settings declares, with their defaults.  BaseSettings
\* forbids undeclared fields, so these are all the attributes settings has.
Settings ==
    [ app_name |-> "COPD Lung Sound Inference API",
      environment |-> "development",
      mongo_uri |-> "mongodb://localhost:27017/copd_app",
      mongo_db |-> "copd_app",
      storage_bucket |-> "lung-audio",
      upload_dir |-> "/tmp/copd/uploads",
      model_path |-> "models/audio_classifier.onnx",
      inference_batch_size |-> 1,
      allow_origins |-> << "http://localhost:3000" >>,
      infra_path |-> "/app/infra/infra.json",
      momo_path |-> "/app/resources/momo.json" ]

\* settings.<name>: attribute access on the pydantic model
AttributeErrorText(name) ==
    IF name = "model_type"
    THEN "'Settings' object has no attribute 'model_type'"
    ELSE "'Settings' object has no attribute 'icbhi_path'"
GetAttr(obj, name) ==
    IF name \in DOMAIN obj
    THEN Return(obj[name])
    ELSE Raise("AttributeError", AttributeErrorText(name))


\* ------------------------------------------------------- classifier output
\* A logits vector: what the network produces for one clip (outputs[0]
\* squeezed, or the classifier head's output), one entry per model class.
LogitVectors ==
    UNION { [1..n -> 0..MaxLogit] : n \in 1..MaxClasses }

RECURSIVE Pow2(_)
Pow2(n) == IF n = 0 THEN 1 ELSE 2 * Pow2(n - 1)

RECURSIVE SumSeq(_)
SumSeq(s) == IF s = << >> THEN 0 ELSE Head(s) + SumSeq(Tail(s))

MaxOf(s) == CHOOSE m \in { s[k] : k \in 1..Len(s) } :
                \A k \in 1..Len(s) : s[k] <= m
MinOf(s) == CHOOSE m \in { s[k] : k \in 1..Len(s) } :
                \A k \in 1..Len(s) : s[k] >= m

\* Fractions
Frac(n, d) == [num |-> n, den |-> d]
FracLess(a, b) == a.num * b.den < b.num * a.den
FracLeq(a, b) == a.num * b.den <= b.num * a.den
Zero == Frac(0, 1)

\* _softmax: exp(logits - max) / sum.  The exponential is taken to base 2
\* and every term is scaled by 2^(max - min) so that it stays an integer;
\* the quotient is the same and the map keeps the order of the logits.
Softmax(logits) ==
    LET exp == [k \in 1..Len(logits) |->
                   Pow2((logits[k] - MaxOf(logits))
                        + (MaxOf(logits) - MinOf(logits)))]
        total == SumSeq(exp)
    IN  [k \in 1..Len(logits) |-> Frac(exp[k], total)]

ArgmaxOneBased(p) ==
    CHOOSE k \in 1..Len(p) :
        /\ \A j \in 1..Len(p) : FracLeq(p[j], p[k])
        /\ \A j \in 1..(k - 1) : FracLess(p[j], p[k])

\* numpy argmax: the first position of a maximal entry, counted from 0
Argmax(p) ==
    (CHOOSE k \in 1..Len(p) :
        /\ \A j \in 1..Len(p) : FracLeq(p[j], p[k])
        /\ \A j \in 1..(k - 1) : FracLess(p[j], p[k])) - 1

\* probabilities[idx] on the numpy vector, idx counted from 0
IndexErrorText == "index out of range"
ArrayGet(p, idx) ==
    IF idx < Len(p) THEN Return(p[idx + 1])
    ELSE Raise("IndexError", IndexErrorText)

LabelNames == { Label[k] : k \in 1..Len(Label) }

\* AudioInferenceService.predict, after session.run: softmax, argmax,
\* list(Label)[label_idx], and the dictionary over enumerate(Label)
OnnxPostprocess(logits) ==
    LET probabilities == Softmax(logits)
        label_idx == Argmax(probabilities)
    IN  IF label_idx >= Len(Label)
        THEN Raise("IndexError", IndexErrorText)
        ELSE IF \E idx \in 0..(Len(Label) - 1) :
                    ArrayGet(probabilities, idx).raised
        THEN Raise("IndexError", IndexErrorText)
        ELSE Return(
               [ label |-> Label[label_idx + 1],
                 confidence |-> ArrayGet(probabilities, label_idx).value,
                 probabilities |->
                    [ name \in LabelNames |->
                        LET idx == (CHOOSE k \in 1..Len(Label)
                                       : Label[k] = name) - 1
                        IN  ArrayGet(probabilities, idx).value ] ])

LabelMappingEnumOrder ==
    [ i \in 0..3 |-> Label[i + 1] ]

\* label_mapping in PyTorchAudioInferenceService.predict:
\* model classes ["normal", "crackle", "wheeze", "both"]
LabelMapping ==
    [ i \in 0..3 |->
        CASE i = 0 -> "none"
          [] i = 1 -> "crackle"
          [] i = 2 -> "wheeze"
          [] i = 3 -> "both" ]

\* label_mapping.get(label_idx, Label.NONE)
MappedLabel(label_idx) ==
    IF label_idx \in DOMAIN LabelMapping
    THEN LabelMapping[label_idx] ELSE "none"

\* the model indices mapped to a label, in dictionary order
ModelIndexOf(name) ==
    { i \in DOMAIN LabelMapping : LabelMapping[i] = name }
FirstModelIndexOf(name) ==
    CHOOSE i \in ModelIndexOf(name) : \A j \in ModelIndexOf(name) : i <= j

\* PyTorchAudioInferenceService.predict, after the classifier forward pass
TorchPostprocess(logits) ==
    LET probabilities == Softmax(logits)
        label_idx == Argmax(probabilities)
        label == MappedLabel(label_idx)
    IN  IF \E name \in LabelNames :
              /\ ModelIndexOf(name) # {}
              /\ ArrayGet(probabilities, FirstModelIndexOf(name)).raised
        THEN Raise("IndexError", IndexErrorText)
        ELSE Return(
               [ label |-> label,
                 confidence |-> ArrayGet(probabilities, label_idx).value,
                 probabilities |->
                    [ name \in LabelNames |->
                        IF ModelIndexOf(name) # {}
                        THEN ArrayGet(probabilities,
                                      FirstModelIndexOf(name)).value
                        ELSE Zero ] ])


\* --------------------------------------------------------------- the state
VARIABLES
    files,       \* storage: path -> content of the saved upload
    store,       \* the predictions collection: ObjectId -> document
    req,         \* upload_audio requests: position and local variables
    task,        \* background tasks: ObjectId -> position of the coroutine
    spawned,     \* ObjectId -> number of asyncio.create_task calls for it
    now,         \* datetime.utcnow()
    reply,       \* the answer of the last get_prediction / list_predictions
    modelFiles,  \* the services whose model file can be loaded
    loaded,      \* the services whose _session / _model is not None
    received,    \* <<service, input kind>> pairs handed to predict
    call,        \* the last direct predict call and its outcome
    lock,        \* service -> the predict call that holds its _lock
    constructed, \* service -> number of models constructed for it
    callers      \* concurrent predict calls: position and outcome

vars == << files, store, req, task, spawned, now, reply,
           modelFiles, loaded, received, call, lock, constructed, callers >>

Services == { "onnx", "pytorch" }

\* ------------------------------------------------------------- identifiers
HexLower == { "0", "a", "b", "c", "d", "f" }
HexUpper == { "A", "B", "C", "F" }
IdTail == << "a", "b", "c", "d" >>

\* The 24 hexadecimal characters of an identifier ending in c
IdString(c) == [k \in 1..24 |-> IF k = 24 THEN c ELSE "0"]

\* ObjectId(prediction_id): 24 hexadecimal characters, either case, else
\* InvalidId; the value is the 12 bytes, written here in lower case
ObjectId(s) ==
    IF Len(s) = 24 /\ \A k \in 1..Len(s) : s[k] \in HexLower \cup HexUpper
    THEN Return(Lower(s))
    ELSE Raise("InvalidId", "not a valid ObjectId")

\* str(result.inserted_id)
OidToStr(oid) == oid

\* insert_one generates an ObjectId no document has yet
NewObjectId(st) == IdString(IdTail[Cardinality(DOMAIN st) + 1])

\* ------------------------------------------------------------- the inputs
\* What the pipeline can observe of the uploaded bytes: their size, whether
\* librosa decodes them, and the logits the network computes for the clip.
Contents ==
    << [size |-> 0, decodable |-> FALSE, logits |-> << 0, 0, 0, 0 >>],
       [size |-> 1, decodable |-> TRUE, logits |-> << 0, MaxLogit, 0, 0 >>],
       [size |-> 2, decodable |-> TRUE, logits |-> << 1, 0, 0, 1 >>] >>

\* The UploadFile values a client sends
UploadFiles ==
    { [content_type |-> None, filename |-> None, content |-> 1],
      [content_type |-> Some(<< >>), filename |-> Some("clip.wav"),
       content |-> 2],
      [content_type |-> Some(<< "A", "u", "d", "i", "o", "/", "w" >>),
       filename |-> Some("clip.wav"), content |-> 2],
      [content_type |-> Some(<< "a", "u", "d", "i" >>),
       filename |-> None, content |-> 3],
      [content_type |-> Some(<< "a", "u", "d", "i", "o", "/", "w" >>),
       filename |-> Some("clip.wav"), content |-> 2],
      [content_type |-> Some(<< "a", "u", "d", "i", "o" >>),
       filename |-> None, content |-> 1] }

\* ----------------------------------------------------------------- storage
\* AudioStorageService.save_upload: a fresh uuid4 path holding the bytes
PathNames == << "u1.wav", "u2.wav", "u3.wav", "u4.wav" >>
NewPath(fs) == PathNames[Cardinality(DOMAIN fs) + 1]
SaveUpload(fs, upload) ==
    [p \in DOMAIN fs \cup {NewPath(fs)} |->
        IF p \in DOMAIN fs THEN fs[p] ELSE Contents[upload.content]]

\* -------------------------------------------------------------- repository
CreateDocumentProcessing(payload, t) ==
    [ filename |-> payload.filename,
      content_type |-> payload.content_type,
      file_size |-> payload.file_size,
      storage_path |-> payload.storage_path,
      user_id |-> None,
      status |-> "processing",
      created_at |-> t,
      updated_at |-> t,
      label |-> None,
      confidence |-> None,
      probabilities |-> None,
      notes |-> None ]

\* PredictionRepository.create: the document it inserts
CreateDocument(payload, t) ==
    [ filename |-> payload.filename,
      content_type |-> payload.content_type,
      file_size |-> payload.file_size,
      storage_path |-> payload.storage_path,
      user_id |-> None,
      status |-> "pending",
      created_at |-> t,
      updated_at |-> t,
      label |-> None,
      confidence |-> None,
      probabilities |-> None,
      notes |-> None ]

InsertOne(st, oid, document) ==
    [o \in DOMAIN st \cup {oid} |-> IF o = oid THEN document ELSE st[o]]

\* Prediction(**document) with document["_id"] = str(oid)
Prediction(oid, document) == [id |-> OidToStr(oid), doc |-> document]

RepositoryGetUncaught(st, prediction_id) ==
    LET oid == ObjectId(prediction_id)
    IN  IF oid.raised
        THEN oid
        ELSE IF oid.value \in DOMAIN st
             THEN Return(Some(Prediction(oid.value, st[oid.value])))
             ELSE Return(None)

\* PredictionRepository.get
RepositoryGet(st, prediction_id) ==
    LET oid == ObjectId(prediction_id)
    IN  IF oid.raised
        THEN IF oid.type = "InvalidId" THEN Return(None) ELSE oid
        ELSE IF oid.value \in DOMAIN st
             THEN Return(Some(Prediction(oid.value, st[oid.value])))
             ELSE Return(None)

\* PredictionRepository.update_status: $set of the fields that are not None
UpdateStatus(st, prediction_id, args, t) ==
    LET oid == ObjectId(prediction_id).value
    IN  IF oid \in DOMAIN st
        THEN [st EXCEPT ![oid] =
                [ @ EXCEPT
                    !.status = args.status,
                    !.updated_at = t,
                    !.label = IF args.label # None
                              THEN args.label ELSE @,
                    !.confidence = IF args.confidence # None
                                   THEN args.confidence ELSE @,
                    !.probabilities = IF args.probabilities # None
                                      THEN args.probabilities ELSE @,
                    !.notes = IF args.notes # None
                              THEN args.notes ELSE @ ]]
        ELSE st

\* find().sort("created_at", -1): every order of the documents in which
\* created_at does not increase (documents with equal times in any order)
SortedByCreatedAtDesc(st) ==
    { s \in [1..Cardinality(DOMAIN st) -> DOMAIN st] :
        /\ \A i, j \in DOMAIN s : i # j => s[i] # s[j]
        /\ \A i, j \in DOMAIN s :
              i < j => st[s[i]].created_at >= st[s[j]].created_at }

Abs(n) == IF n < 0 THEN -n ELSE n
Min(a, b) == IF a < b THEN a ELSE b

\* cursor.limit(limit): 0 means no limit, a negative limit means its
\* absolute value
CursorLimit(s, limit) ==
    IF limit = 0 THEN s ELSE SubSeq(s, 1, Min(Len(s), Abs(limit)))

\* PredictionRepository.list_recent: the lists it can return
ListRecent(st, limit) ==
    { [k \in 1..Len(CursorLimit(s, limit)) |->
          Prediction(CursorLimit(s, limit)[k], st[CursorLimit(s, limit)[k]])]
        : s \in SortedByCreatedAtDesc(st) }


\* ------------------------------------------------------------ upload_audio
UnsupportedIgnoringCase(upload) ==
    IF upload.content_type = None THEN TRUE
    ELSE IF TheValue(upload.content_type) = << >> THEN TRUE
    ELSE ~ StartsWith(Lower(TheValue(upload.content_type)),
                      << "a", "u", "d", "i", "o" >>)

\* not file.content_type or not file.content_type.startswith("audio")
Unsupported(upload) ==
    IF upload.content_type = None THEN TRUE
    ELSE IF TheValue(upload.content_type) = << >> THEN TRUE
    ELSE ~ StartsWith(TheValue(upload.content_type),
                      << "a", "u", "d", "i", "o" >>)

IdleRequest ==
    [ stage |-> "idle", upload |-> None, path |-> None, oid |-> None,
      document |-> None, response |-> None ]

\* The PredictionCreate payload upload_audio builds
UploadPayload(upload, saved_path, fs) ==
    [ filename |-> IF upload.filename # None
                   THEN TheValue(upload.filename) ELSE saved_path,
      content_type |-> TheValue(upload.content_type),
      file_size |-> fs[saved_path].size,
      storage_path |-> saved_path ]

\* Requests are numbered in the order in which they arrive
Arrives(r) ==
    /\ req[r].stage = "idle"
    /\ \A q \in 1..(r - 1) : req[q].stage # "idle"

\* upload_audio, content type refused: HTTPException(400)
UploadReject(r, upload) ==
    /\ Arrives(r)
    /\ Unsupported(upload)
    /\ req' = [req EXCEPT ![r] =
                 [ @ EXCEPT !.stage = "done",
                            !.upload = Some(upload),
                            !.response = Some([ code |-> 400,
                                                detail |-> "Unsupported file type",
                                                body |-> None ]) ]]
    /\ UNCHANGED << files, store, task, spawned, now, reply,
                    modelFiles, loaded, received, call,
                    lock, constructed, callers >>

\* upload_audio up to the end of await storage_service.save_upload(file)
UploadSave(r, upload) ==
    /\ Arrives(r)
    /\ ~ Unsupported(upload)
    /\ files' = SaveUpload(files, upload)
    /\ req' = [req EXCEPT ![r] =
                 [ @ EXCEPT !.stage = "saved",
                            !.upload = Some(upload),
                            !.path = Some(NewPath(files)) ]]
    /\ UNCHANGED << store, task, spawned, now, reply,
                    modelFiles, loaded, received, call,
                    lock, constructed, callers >>

\* repository.create up to the completion of insert_one
UploadCreate(r) ==
    /\ req[r].stage = "saved"
    /\ LET payload == UploadPayload(TheValue(req[r].upload),
                                    TheValue(req[r].path), files)
           document == CreateDocument(payload, now)
           oid == NewObjectId(store)
       IN  /\ store' = InsertOne(store, oid, document)
           /\ req' = [req EXCEPT ![r] =
                        [ @ EXCEPT !.stage = "inserted",
                                   !.oid = Some(oid),
                                   !.document = Some(document) ]]
    /\ UNCHANGED << files, task, spawned, now, reply,
                    modelFiles, loaded, received, call,
                    lock, constructed, callers >>

NewTask(audio_path) ==
    [ pc |-> "start", audio_path |-> audio_path,
      raised |-> None,    \* the exception raised inside the try block
      args |-> None,      \* the arguments of the pending update_status
      escaped |-> None ]  \* the exception that leaves the coroutine

\* asyncio.create_task(_process_prediction(repository, prediction.id, path))
CreateTask(tk, oid, audio_path) ==
    [o \in DOMAIN tk \cup {oid} |->
        IF o = oid THEN NewTask(audio_path) ELSE tk[o]]
CountTask(sp, oid) ==
    [o \in DOMAIN sp \cup {oid} |->
        IF o = oid THEN (IF o \in DOMAIN sp THEN sp[o] + 1 ELSE 1)
        ELSE sp[o]]

\* The Prediction that upload_audio returns: built by repository.create
\* from its local document, not read back from the collection
UploadResponse(oid, document) == Prediction(oid, document)

\* upload_audio from the return of repository.create to its own return
UploadReturn(r) ==
    /\ req[r].stage = "inserted"
    /\ LET oid == TheValue(req[r].oid)
           prediction == UploadResponse(oid, TheValue(req[r].document))
       IN  /\ task' = CreateTask(task, ObjectId(prediction.id).value,
                                   TheValue(req[r].path))
           /\ spawned' = CountTask(spawned, ObjectId(prediction.id).value)
           /\ req' = [req EXCEPT ![r] =
                        [ @ EXCEPT !.stage = "done",
                                   !.response =
                                       Some([ code |-> 201,
                                              detail |-> "Created",
                                              body |-> Some(prediction) ]) ]]
    /\ UNCHANGED << files, store, now, reply,
                    modelFiles, loaded, received, call,
                    lock, constructed, callers >>


\* ------------------------------------------------------ inference services
Pytorch == << "p", "y", "t", "o", "r", "c", "h" >>

\* get_pytorch_inference_service: PyTorchAudioInferenceService() reads
\* settings.model_path and settings.icbhi_path
GetPytorchInferenceService ==
    IF GetAttr(Settings, "model_path").raised
    THEN GetAttr(Settings, "model_path")
    ELSE IF GetAttr(Settings, "icbhi_path").raised
    THEN GetAttr(Settings, "icbhi_path")
    ELSE Return("pytorch")

\* get_inference_service
GetInferenceService ==
    LET model_type == GetAttr(Settings, "model_type")
    IN  IF model_type.raised THEN model_type
        ELSE IF Lower(model_type.value) = Pytorch
        THEN GetPytorchInferenceService
        ELSE Return("onnx")

\* load_waveform: librosa.load raises on bytes it cannot decode
LoadWaveform(content) ==
    IF content.decodable
    THEN Return([kind |-> "waveform", logits |-> content.logits])
    ELSE Raise("LibsndfileError", "Error opening audio file")

\* extract_mel_spectrogram
ExtractMelSpectrogram(waveform) ==
    [kind |-> "mel", logits |-> waveform.logits]

LoadErrorType(svc) ==
    IF svc = "onnx" THEN "NoSuchFile" ELSE "RuntimeError"
LoadErrorText(svc) ==
    IF svc = "onnx" THEN "Load model failed. File doesn't exist"
    ELSE "Failed to load PyTorch model"

\* predict of either service: the lazy load, then the forward pass and the
\* post-processing.  There is no suspension point inside, so it is one step.
Predict(svc, input, ld, mf, rc) ==
    IF svc \notin ld /\ svc \notin mf
    THEN [ outcome |-> Raise(LoadErrorType(svc), LoadErrorText(svc)),
           loaded |-> ld,
           received |-> rc \cup { << svc, input.kind >> } ]
    ELSE [ outcome |-> IF svc = "onnx"
                       THEN OnnxPostprocess(input.logits)
                       ELSE TorchPostprocess(input.logits),
           loaded |-> ld \cup { svc },
           received |-> rc \cup { << svc, input.kind >> } ]

\* ort.InferenceSession(...) / load_model_with_wrapper(...): one more model
\* has been constructed for every service that became loaded
Constructed(cn, ld, ld2) ==
    [svc \in Services |-> cn[svc] + (IF svc \in ld2 \ ld THEN 1 ELSE 0)]

\* ----------------------------------------------------- _process_prediction
\* The try block up to the call of repository.update_status
TryBlock(content, ld, mf, rc) ==
    LET inference_service == GetInferenceService
        waveform == LoadWaveform(content)
        model_type == GetAttr(Settings, "model_type")
    IN  IF inference_service.raised
        THEN [outcome |-> inference_service, loaded |-> ld, received |-> rc]
        ELSE IF waveform.raised
        THEN [outcome |-> waveform, loaded |-> ld, received |-> rc]
        ELSE IF model_type.raised
        THEN [outcome |-> model_type, loaded |-> ld, received |-> rc]
        ELSE IF Lower(model_type.value) = Pytorch
        THEN Predict(inference_service.value, waveform.value, ld, mf, rc)
        ELSE Predict(inference_service.value,
                     ExtractMelSpectrogram(waveform.value), ld, mf, rc)

\* The classes "except Exception" catches; CancelledError is not one
ExceptionClasses ==
    { "AttributeError", "IndexError", "RuntimeError", "LibsndfileError",
      "NoSuchFile", "InvalidId" }
ExceptCatchesRuntimeError(type) == type = "RuntimeError"
ExceptCatches(type) == type \in ExceptionClasses

CompletedArgs(result) ==
    [ status |-> "completed", label |-> Some(result.label),
      confidence |-> Some(result.confidence),
      probabilities |-> Some(result.probabilities), notes |-> None ]

FailedArgsProcessing(exc) ==
    [ status |-> "processing", label |-> None, confidence |-> None,
      probabilities |-> None, notes |-> Some(exc.text) ]

\* str(exc)
FailedArgs(exc) ==
    [ status |-> "failed", label |-> None, confidence |-> None,
      probabilities |-> None, notes |-> Some(exc.text) ]

\* _process_prediction from its start to its first suspension
ProcessTry(oid) ==
    /\ oid \in DOMAIN task
    /\ task[oid].pc = "start"
    /\ LET run == TryBlock(files[task[oid].audio_path], loaded, modelFiles,
                           received)
       IN  /\ loaded' = run.loaded
           /\ received' = run.received
           /\ task' = [task EXCEPT ![oid] =
                IF ~ run.outcome.raised
                THEN [ @ EXCEPT !.pc = "write_completed",
                                !.args = Some(CompletedArgs(run.outcome.value)) ]
                ELSE IF ExceptCatches(run.outcome.type)
                THEN [ @ EXCEPT !.pc = "write_failed",
                                !.raised = Some(run.outcome),
                                !.args = Some(FailedArgs(run.outcome)) ]
                ELSE [ @ EXCEPT !.pc = "finally",
                                !.raised = Some(run.outcome),
                                !.escaped = Some(run.outcome) ]]
           /\ constructed' = Constructed(constructed, loaded, run.loaded)
    /\ UNCHANGED << files, store, req, spawned, now, reply, modelFiles,
                    call, lock, callers >>

\* the pending await repository.update_status(...) completes
ProcessUpdateStatus(oid) ==
    /\ oid \in DOMAIN task
    /\ task[oid].pc \in { "write_completed", "write_failed" }
    /\ store' = UpdateStatus(store, OidToStr(oid), TheValue(task[oid].args),
                             now)
    /\ task' = [task EXCEPT ![oid] = [ @ EXCEPT !.pc = "finally" ]]
    /\ UNCHANGED << files, req, spawned, now, reply, modelFiles, loaded,
                    received, call,
                    lock, constructed, callers >>

\* finally: await asyncio.sleep(0), then the coroutine ends
ProcessFinally(oid) ==
    /\ oid \in DOMAIN task
    /\ task[oid].pc = "finally"
    /\ task' = [task EXCEPT ![oid] = [ @ EXCEPT !.pc = "done" ]]
    /\ UNCHANGED << files, store, req, spawned, now, reply, modelFiles,
                    loaded, received, call,
                    lock, constructed, callers >>

\* ------------------------------------------------------------ read handlers
\* Identifiers a client asks for: of the first and second record, the
\* first in upper case, one no record has, one with a character that is
\* not hexadecimal, one that is too short
QueryIds ==
    { IdString("a"), IdString("b"), IdString("A"), IdString("f"),
      IdString("g"), << "a" >> }

Limits == { -1, 0, 1, 20 }

\* get_prediction
GetPrediction(prediction_id) ==
    /\ LET prediction == RepositoryGet(store, prediction_id)
       IN  reply' = Some(
             [ op |-> "get", id |-> prediction_id, limit |-> 0,
               code |-> IF prediction.raised THEN 500
                        ELSE IF prediction.value = None THEN 404 ELSE 200,
               detail |-> IF prediction.raised THEN "Internal Server Error"
                          ELSE IF prediction.value = None
                          THEN "Prediction not found" ELSE "OK",
               body |-> IF prediction.raised THEN None ELSE prediction.value,
               items |-> << >> ])
    /\ UNCHANGED << files, store, req, task, spawned, now, modelFiles,
                    loaded, received, call,
                    lock, constructed, callers >>

\* list_predictions
ListPredictions(limit) ==
    /\ \E items \in ListRecent(store, limit) :
          reply' = Some(
             [ op |-> "list", id |-> << >>, limit |-> limit,
               code |-> 200, detail |-> "OK", body |-> None,
               items |-> items ])
    /\ UNCHANGED << files, store, req, task, spawned, now, modelFiles,
                    loaded, received, call,
                    lock, constructed, callers >>

\* time passes
Tick ==
    /\ now < MaxClock
    /\ now' = now + 1
    /\ UNCHANGED << files, store, req, task, spawned, reply, modelFiles,
                    loaded, received, call,
                    lock, constructed, callers >>

\* ------------------------------------------------- direct calls of predict
NewCall(logits) ==
    [ logits |-> logits, onnx |-> None, pytorch |-> None ]

\* AudioInferenceService.predict on mel-spectrogram features
PredictOnnx ==
    /\ call # None
    /\ TheValue(call).onnx = None
    /\ LET run == Predict("onnx",
                          [kind |-> "mel", logits |-> TheValue(call).logits],
                          loaded, modelFiles, received)
       IN  /\ call' = Some([ TheValue(call) EXCEPT
                                !.onnx = Some(run.outcome) ])
           /\ loaded' = run.loaded
           /\ received' = run.received
           /\ constructed' = Constructed(constructed, loaded, run.loaded)
    /\ UNCHANGED << files, store, req, task, spawned, now, reply,
                    modelFiles, lock, callers >>

\* PyTorchAudioInferenceService.predict on a raw waveform
PredictTorch ==
    /\ call # None
    /\ TheValue(call).pytorch = None
    /\ LET run == Predict("pytorch",
                          [kind |-> "waveform",
                           logits |-> TheValue(call).logits],
                          loaded, modelFiles, received)
       IN  /\ call' = Some([ TheValue(call) EXCEPT
                                !.pytorch = Some(run.outcome) ])
           /\ loaded' = run.loaded
           /\ received' = run.received
           /\ constructed' = Constructed(constructed, loaded, run.loaded)
    /\ UNCHANGED << files, store, req, task, spawned, now, reply,
                    modelFiles, lock, callers >>

\* --------------------------------------------- concurrent calls of predict
\* Several predict calls on the services at once.  A call may be suspended
\* wherever the code awaits: at "await self.load()" and at the entry of
\* "async with self._lock".  The event loop switches at no other place, and
\* it need not switch at these.
Callers == 1..MaxCalls

IdleCaller ==
    [ pc |-> "idle", svc |-> None, waited |-> FALSE, outcome |-> None ]

\* the input each service is called with
CallInput(svc) ==
    [ kind |-> IF svc = "onnx" THEN "mel" ELSE "waveform",
      logits |-> << 0, MaxLogit, 0, 0 >> ]

\* predict after the load: the forward pass and the post-processing
RunModel(svc, input) ==
    IF svc = "onnx" THEN OnnxPostprocess(input.logits)
    ELSE TorchPostprocess(input.logits)

\* "if self._session is None" / "if self._model is None" in predict
OuterCheck(svc, ld) == svc \notin ld

InnerCheckAlways(svc, ld) == TRUE

\* "if self._session is None" / "if self._model is None" in load, under
\* the lock
InnerCheck(svc, ld) == svc \notin ld

\* predict from its start to "await self.load()", or to its return when
\* the model is already there
CallPredict(c, svc) ==
    /\ callers[c].pc = "idle"
    /\ received' = received \cup { << svc, CallInput(svc).kind >> }
    /\ callers' = [callers EXCEPT ![c] =
          IF OuterCheck(svc, loaded)
          THEN [ @ EXCEPT !.pc = "load", !.svc = Some(svc),
                          !.waited = TRUE ]
          ELSE [ @ EXCEPT !.pc = "done", !.svc = Some(svc),
                          !.outcome = Some(RunModel(svc, CallInput(svc))) ]]
    /\ UNCHANGED << files, store, req, task, spawned, now, reply,
                    modelFiles, loaded, call, lock, constructed >>

\* load: "async with self._lock" is entered once the lock is free
LoadAcquire(c) ==
    /\ callers[c].pc = "load"
    /\ lock[TheValue(callers[c].svc)] = None
    /\ lock' = [lock EXCEPT ![TheValue(callers[c].svc)] = Some(c)]
    /\ callers' = [callers EXCEPT ![c] = [ @ EXCEPT !.pc = "locked" ]]
    /\ UNCHANGED << files, store, req, task, spawned, now, reply,
                    modelFiles, loaded, received, call, constructed >>

\* load under the lock: the model is constructed if it is still missing,
\* the lock is released, and predict runs on to its return; a constructor
\* that raises leaves the service without a model
LoadBody(c) ==
    /\ callers[c].pc = "locked"
    /\ LET svc == TheValue(callers[c].svc)
           builds == InnerCheck(svc, loaded)
           fails == builds /\ svc \notin modelFiles
       IN  /\ lock[svc] = Some(c)
           /\ lock' = [lock EXCEPT ![svc] = None]
           /\ loaded' = IF builds /\ ~ fails
                        THEN loaded \cup { svc } ELSE loaded
           /\ constructed' =
                 IF builds /\ ~ fails
                 THEN [constructed EXCEPT ![svc] = @ + 1]
                 ELSE constructed
           /\ callers' = [callers EXCEPT ![c] =
                 [ @ EXCEPT !.pc = "done",
                            !.outcome =
                               IF fails
                               THEN Some(Raise(LoadErrorType(svc),
                                               LoadErrorText(svc)))
                               ELSE Some(RunModel(svc, CallInput(svc))) ]]
    /\ UNCHANGED << files, store, req, task, spawned, now, reply,
                    modelFiles, received, call >>

\* ---------------------------------------------------------- specifications
Requests == 1..MaxUploads
Oids == { IdString(IdTail[i]) : i \in 1..MaxUploads }

Init ==
    /\ files = << >>
    /\ store = << >>
    /\ req = [r \in Requests |-> IdleRequest]
    /\ task = << >>
    /\ spawned = << >>
    /\ now = 0
    /\ reply = None
    /\ modelFiles = Services
    /\ loaded = {}
    /\ received = {}
    /\ call = None
    /\ lock = [svc \in Services |-> None]
    /\ constructed = [svc \in Services |-> 0]
    /\ callers = [c \in Callers |-> IdleCaller]

Next ==
    \/ \E r \in Requests, upload \in UploadFiles : UploadReject(r, upload)
    \/ \E r \in Requests, upload \in UploadFiles : UploadSave(r, upload)
    \/ \E r \in Requests : UploadCreate(r)
    \/ \E r \in Requests : UploadReturn(r)
    \/ \E oid \in Oids : ProcessTry(oid)
    \/ \E oid \in Oids : ProcessUpdateStatus(oid)
    \/ \E oid \in Oids : ProcessFinally(oid)
    \/ Tick

Spec == Init /\ [][Next]_vars

\* The accepted uploads and their background tasks
NextPipeline ==
    \/ \E r \in Requests, upload \in UploadFiles : UploadSave(r, upload)
    \/ \E r \in Requests : UploadCreate(r)
    \/ \E r \in Requests : UploadReturn(r)
    \/ \E oid \in Oids : ProcessTry(oid)
    \/ \E oid \in Oids : ProcessUpdateStatus(oid)
    \/ \E oid \in Oids : ProcessFinally(oid)

\* The event loop runs every coroutine that is ready, and the database
\* answers every request: a handler that has saved its file goes on to its
\* return, and a task that was created goes on to its end
Fairness ==
    /\ \A r \in Requests : WF_vars(UploadCreate(r) \/ UploadReturn(r))
    /\ \A oid \in Oids :
          WF_vars(ProcessTry(oid) \/ ProcessUpdateStatus(oid)
                    \/ ProcessFinally(oid))

FairSpec == Init /\ [][NextPipeline]_vars /\ Fairness

\* The uploads next to which the read handlers are checked
ReadUploads ==
    { upload \in UploadFiles :
        /\ ~ Unsupported(upload)
        /\ upload.filename # None
        /\ Contents[upload.content].decodable }

\* get_prediction next to the uploads and their background tasks
NextGet ==
    \/ \E r \in Requests, upload \in ReadUploads : UploadSave(r, upload)
    \/ \E r \in Requests : UploadCreate(r)
    \/ \E r \in Requests : UploadReturn(r)
    \/ \E oid \in Oids : ProcessTry(oid)
    \/ \E oid \in Oids : ProcessUpdateStatus(oid)
    \/ \E oid \in Oids : ProcessFinally(oid)
    \/ \E prediction_id \in QueryIds : GetPrediction(prediction_id)

SpecGet == Init /\ [][NextGet]_vars

\* list_predictions next to the uploads and their background tasks
NextList ==
    \/ \E r \in Requests, upload \in ReadUploads : UploadSave(r, upload)
    \/ \E r \in Requests : UploadCreate(r)
    \/ \E r \in Requests : UploadReturn(r)
    \/ \E oid \in Oids : ProcessTry(oid)
    \/ \E oid \in Oids : ProcessUpdateStatus(oid)
    \/ \E oid \in Oids : ProcessFinally(oid)
    \/ Tick
    \/ \E limit \in Limits : ListPredictions(limit)

SpecList == Init /\ [][NextList]_vars

\* The services called directly, on every logits vector
InitPredict ==
    /\ files = << >>
    /\ store = << >>
    /\ req = [r \in Requests |-> IdleRequest]
    /\ task = << >>
    /\ spawned = << >>
    /\ now = 0
    /\ reply = None
    /\ modelFiles \in SUBSET Services
    /\ loaded = {}
    /\ received = {}
    /\ call \in { Some(NewCall(logits)) : logits \in LogitVectors }
    /\ lock = [svc \in Services |-> None]
    /\ constructed = [svc \in Services |-> 0]
    /\ callers = [c \in Callers |-> IdleCaller]

NextPredict ==
    \/ PredictOnnx
    \/ PredictTorch

SpecPredict == InitPredict /\ [][NextPredict]_vars


\* Concurrent predict calls on services that are not yet loaded
InitLoad ==
    /\ files = << >>
    /\ store = << >>
    /\ req = [r \in Requests |-> IdleRequest]
    /\ task = << >>
    /\ spawned = << >>
    /\ now = 0
    /\ reply = None
    /\ modelFiles \in SUBSET Services
    /\ loaded = {}
    /\ received = {}
    /\ call = None
    /\ lock = [svc \in Services |-> None]
    /\ constructed = [svc \in Services |-> 0]
    /\ callers = [c \in Callers |-> IdleCaller]

NextLoad ==
    \/ \E c \in Callers, svc \in Services : CallPredict(c, svc)
    \/ \E c \in Callers : LoadAcquire(c)
    \/ \E c \in Callers : LoadBody(c)

SpecLoad == InitLoad /\ [][NextLoad]_vars

\* ================================================================= claims
Audio == << "a", "u", "d", "i", "o" >>

\* The results the classifiers return for a clip once their model files
\* are loaded: the ONNX service on its features, the PyTorch service on
\* its waveform
ClassifierResults(content) ==
    { o \in { Predict("onnx", ExtractMelSpectrogram(content),
                      {}, Services, {}).outcome,
              Predict("pytorch", [kind |-> "waveform",
                                  logits |-> content.logits],
                      {}, Services, {}).outcome } : ~ o.raised }

\* C1: when the audio of an accepted upload loads and the classifier
\* returns a result for it, the finished pipeline has set the record to
\* completed with the label, confidence and probabilities of that result.
C1_ResultPersisted ==
    \A oid \in DOMAIN task :
        LET content == files[task[oid].audio_path]
        IN  ( /\ task[oid].pc = "done"
              /\ content.decodable
              /\ modelFiles = Services
              /\ ClassifierResults(content) # {} )
            => /\ store[oid].status = "completed"
               /\ \E o \in ClassifierResults(content) :
                     /\ store[oid].label = Some(o.value.label)
                     /\ store[oid].confidence = Some(o.value.confidence)
                     /\ store[oid].probabilities
                           = Some(o.value.probabilities)

\* C2: an exception raised inside the try block is caught: it does not
\* leave the task, and once the handler's write is done the record is
\* failed with notes equal to the exception text.
C2_ExceptionCaught ==
    \A oid \in DOMAIN task :
        task[oid].raised # None =>
            /\ task[oid].escaped = None
            /\ task[oid].pc \in { "write_failed", "finally", "done" }
            /\ task[oid].pc \in { "finally", "done" } =>
                  /\ store[oid].status = "failed"
                  /\ store[oid].notes
                        = Some(TheValue(task[oid].raised).text)

C2_Witness ==
    \E oid \in DOMAIN task :
        /\ task[oid].raised # None
        /\ task[oid].pc = "done"
        /\ store[oid].status = "failed"

\* C3: under fair scheduling every record that is created eventually has
\* status completed or failed.
C3_LeavesPending ==
    \A oid \in Oids :
        (oid \in DOMAIN store)
            ~> (oid \in DOMAIN store
                  /\ store[oid].status \in { "completed", "failed" })

C3_Witness ==
    \E oid \in DOMAIN store :
        /\ store[oid].status \in { "completed", "failed" }
        /\ task[oid].pc = "done"

\* C4: an accepted upload starts exactly one background task for the new
\* record and answers with the record as created: pending, without label,
\* confidence, probabilities or notes, whatever the task has done since.
C4_FireAndForget ==
    /\ \A oid \in DOMAIN spawned : spawned[oid] = 1
    /\ DOMAIN task = DOMAIN spawned
    /\ \A r \in Requests :
          ( /\ req[r].response # None
            /\ TheValue(req[r].response).code = 201 ) =>
             LET oid == TheValue(req[r].oid)
                 body == TheValue(TheValue(req[r].response).body)
             IN  /\ oid \in DOMAIN task
                 /\ body.id = OidToStr(oid)
                 /\ body.doc.status = "pending"
                 /\ body.doc.label = None
                 /\ body.doc.confidence = None
                 /\ body.doc.probabilities = None
                 /\ body.doc.notes = None
    /\ \A r \in Requests :
          ( req[r].oid # None /\ req[r].response = None ) =>
             TheValue(req[r].oid) \notin DOMAIN task

\* the response is still the pending record after the task has finished
C4_Witness ==
    \E r \in Requests :
        /\ req[r].response # None
        /\ TheValue(req[r].response).code = 201
        /\ TheValue(TheValue(req[r].response).body).doc.status = "pending"
        /\ task[TheValue(req[r].oid)].pc = "done"
        /\ store[TheValue(req[r].oid)].status = "failed"

\* a content type that is missing or does not begin with "audio"
NotAudio(content_type) ==
    \/ content_type = None
    \/ \E ct \in content_type :
          \/ Len(ct) < Len(Audio)
          \/ \E k \in 1..Len(Audio) : k <= Len(ct) /\ ct[k] # Audio[k]

Handled == { r \in Requests : req[r].upload # None }
Refused == { r \in Handled : NotAudio(TheValue(req[r].upload).content_type) }

\* C5: an upload whose content type is missing or does not start with
\* "audio" is answered 400 "Unsupported file type", and it leaves no file,
\* no record and no task: files, records and tasks are only those of the
\* other uploads.
C5_RejectChangesNothing ==
    /\ \A r \in Refused :
          /\ req[r].response
                = Some([ code |-> 400, detail |-> "Unsupported file type",
                         body |-> None ])
          /\ req[r].path = None
          /\ req[r].oid = None
    /\ Cardinality(DOMAIN files) = Cardinality(Handled \ Refused)
    /\ Cardinality(DOMAIN store) <= Cardinality(Handled \ Refused)
    /\ Cardinality(DOMAIN task) <= Cardinality(Handled \ Refused)

C5_Witness ==
    /\ \E r \in Refused : TheValue(req[r].upload).content_type = None
    /\ \E r \in Refused : TheValue(req[r].upload).content_type # None
    /\ DOMAIN files = {}


\* the record an identifier denotes: the same 24 hexadecimal digits,
\* whatever the case of the letters
Denotes(prediction_id, oid) ==
    /\ Len(prediction_id) = Len(oid)
    /\ \A k \in 1..Len(oid) : LowerChar(prediction_id[k]) = oid[k]

\* C6: get_prediction answers with the stored record the identifier
\* denotes, as it is in the store at that moment; when no record has the
\* identifier, or the identifier is malformed, it answers 404 "Prediction
\* not found"; and it leaves the store as it was.
C6_GetPrediction ==
    [][ reply' # reply =>
          LET answer == TheValue(reply')
              found == { oid \in DOMAIN store : Denotes(answer.id, oid) }
          IN  /\ answer.op = "get"
              /\ store' = store
              /\ found # {} =>
                    /\ answer.code = 200
                    /\ \E oid \in found :
                          answer.body = Some(Prediction(oid, store[oid]))
              /\ found = {} =>
                    /\ answer.code = 404
                    /\ answer.detail = "Prediction not found"
                    /\ answer.body = None ]_vars

\* a record whose task has run is returned as failed, asked for by the
\* upper-case spelling of its identifier
C6_Witness ==
    /\ reply # None
    /\ TheValue(reply).op = "get"
    /\ TheValue(reply).code = 200
    /\ TheValue(TheValue(reply).body).doc.status = "failed"
    /\ TheValue(reply).id = IdString("A")

\* C7: list_predictions returns at most limit records (none when limit is
\* negative), the ones with the greatest created_at, newest first.
C7_ListPredictions ==
    [][ reply' # reply =>
          LET answer == TheValue(reply')
              items == answer.items
              listed == { ObjectId(items[k].id).value : k \in DOMAIN items }
          IN  /\ answer.op = "list"
              /\ Len(items) <= (IF answer.limit < 0 THEN 0
                                ELSE answer.limit)
              /\ \A i, j \in DOMAIN items :
                    i < j => items[i].doc.created_at
                                >= items[j].doc.created_at
              /\ \A k \in DOMAIN items :
                    /\ ObjectId(items[k].id).value \in DOMAIN store
                    /\ items[k].doc = store[ObjectId(items[k].id).value]
              /\ \A o \in DOMAIN store \ listed :
                    /\ Len(items) = (IF answer.limit < 0 THEN 0
                                     ELSE answer.limit)
                    /\ \A k \in DOMAIN items :
                          items[k].doc.created_at >= store[o].created_at
      ]_vars

\* the service and the input kind that settings.model_type asks for
ConfiguredPair ==
    IF "model_type" \in DOMAIN Settings
         /\ Lower(Settings["model_type"]) = Pytorch
    THEN << "pytorch", "waveform" >>
    ELSE << "onnx", "mel" >>

\* C8: a pipeline run whose audio loads hands its input to the service
\* that settings.model_type selects, the raw waveform to the PyTorch
\* service when it is "pytorch" in any case and mel features to the ONNX
\* service otherwise; no service ever receives the other kind of input.
C8_BackendMatchesInput ==
    /\ received \subseteq { << "pytorch", "waveform" >>, << "onnx", "mel" >> }
    /\ \A oid \in DOMAIN task :
          ( /\ task[oid].pc # "start"
            /\ files[task[oid].audio_path].decodable )
          => ConfiguredPair \in received

Outcomes ==
    IF call = None THEN {}
    ELSE { [svc |-> svc, logits |-> TheValue(call).logits,
            outcome |-> TheValue(TheValue(call)[svc])] :
             svc \in { v \in Services : TheValue(call)[v] # None
                                          /\ v \in modelFiles } }

\* the result names exactly the four labels, its label has the greatest
\* probability among them, and its confidence is that probability
WellFormed(result) ==
    /\ DOMAIN result.probabilities
          = { "crackle", "wheeze", "both", "none" }
    /\ result.label \in DOMAIN result.probabilities
    /\ \A name \in DOMAIN result.probabilities :
          FracLeq(result.probabilities[name],
                  result.probabilities[result.label])
    /\ result.confidence = result.probabilities[result.label]

\* C9 as stated: for both backends and every output vector, predict
\* returns a result with the four keys whose label has the greatest
\* probability and whose confidence is probabilities[label].
C9_AnyVector ==
    \A c \in Outcomes :
        /\ ~ c.outcome.raised
        /\ WellFormed(c.outcome.value)

\* C9 amended: the same for every output vector of exactly four entries.
C9_FourClassVector ==
    \A c \in Outcomes :
        Len(c.logits) = 4 =>
            /\ ~ c.outcome.raised
            /\ WellFormed(c.outcome.value)

\* both services have answered for the same four-class vector; index 2 is
\* both in the ONNX order and wheeze in the PyTorch order
C9_Witness ==
    /\ Cardinality(Outcomes) = 2
    /\ \A c \in Outcomes :
          /\ c.logits = << 0, 1, 2, 2 >>
          /\ ~ c.outcome.raised
          /\ c.outcome.value.label
                = (IF c.svc = "onnx" THEN "both" ELSE "wheeze")

\* the position, counted from 0, of the first greatest entry
FirstGreatest(logits) ==
    CHOOSE k \in 0..(Len(logits) - 1) :
        /\ \A j \in 1..Len(logits) : logits[j] <= logits[k + 1]
        /\ \A j \in 1..k : logits[j] < logits[k + 1]

\* C10: the PyTorch service gives none for argmax index 0, crackle for 1,
\* wheeze for 2 and both for 3, and the probability it reports for a label
\* is the one at that model index.
C10_TorchMapping ==
    \A c \in Outcomes :
        ( c.svc = "pytorch" /\ ~ c.outcome.raised ) =>
            LET result == c.outcome.value
                p == Softmax(c.logits)
            IN  /\ FirstGreatest(c.logits) = 0 => result.label = "none"
                /\ FirstGreatest(c.logits) = 1 => result.label = "crackle"
                /\ FirstGreatest(c.logits) = 2 => result.label = "wheeze"
                /\ FirstGreatest(c.logits) = 3 => result.label = "both"
                /\ result.probabilities["none"] = p[1]
                /\ result.probabilities["crackle"] = p[2]
                /\ result.probabilities["wheeze"] = p[3]
                /\ result.probabilities["both"] = p[4]

C10_Witness ==
    \E c \in Outcomes :
        /\ c.svc = "pytorch"
        /\ ~ c.outcome.raised
        /\ c.logits = << 0, 2, 1, 0 >>
        /\ c.outcome.value.label = "crackle"
        /\ FracLess(c.outcome.value.probabilities["wheeze"],
                    c.outcome.value.probabilities["crackle"])
        /\ FracLess(c.outcome.value.probabilities["none"],
                    c.outcome.value.probabilities["wheeze"])


\* C11: however many predict calls run at once on a service that is not
\* loaded, at most one model is constructed for it, and once the service
\* is loaded no predict constructs another.
C11_LoadedOnce ==
    /\ [](\A svc \in Services : constructed[svc] <= 1)
    /\ [][\A svc \in Services :
            svc \in loaded => constructed'[svc] = constructed[svc]]_vars

\* two calls found the service without a model and both went through
\* load, a third came after; one model was constructed
C11_Witness ==
    \E svc \in Services :
        /\ constructed[svc] = 1
        /\ \E c1, c2, c3 \in Callers :
              /\ c1 # c2
              /\ \A c \in { c1, c2, c3 } :
                    /\ callers[c].pc = "done"
                    /\ callers[c].svc = Some(svc)
                    /\ ~ TheValue(callers[c].outcome).raised
              /\ callers[c1].waited
              /\ callers[c2].waited
              /\ ~ callers[c3].waited


\* C12: a record is processed by at most one run of the pipeline, and a
\* run never starts over; the status of a record changes only from pending
\* to completed or from pending to failed, so a completed or failed record
\* keeps its status; no record ever has status processing.
C12_NoRetry ==
    /\ [](\A oid \in DOMAIN store : store[oid].status # "processing")
    /\ [](\A oid \in DOMAIN spawned : spawned[oid] <= 1)
    /\ [][\A oid \in DOMAIN store :
            /\ store'[oid].status # store[oid].status =>
                  /\ store[oid].status = "pending"
                  /\ store'[oid].status \in { "completed", "failed" }
            /\ (oid \in DOMAIN task /\ task[oid].pc # "start") =>
                  task'[oid].pc # "start"]_vars

\* every record that can exist has been processed once and is failed
C12_Witness ==
    /\ DOMAIN store = Oids
    /\ \A oid \in Oids :
          /\ store[oid].status = "failed"
          /\ spawned[oid] = 1
          /\ task[oid].pc = "done"

====
